---- MODULE Spec2Model ----
(***************************************************************************)
(* State-machine model of src/main.py: the start-up sequence of            *)
(* GamePosterApp (build, the scheduled load_games callback with its five   *)
(* page fetches and the poster loop), fetch_popular_games as a pure        *)
(* function of the HTTP response it receives, and the two screen           *)
(* navigation handlers.                                                    *)
(***************************************************************************)
EXTENDS Integers, Sequences, FiniteSets, TLC

VARIABLES
  environ,            \* os.environ after load_dotenv(): a partial map of names
  api_key,            \* module global api_key (line 35)
  pc,                 \* where the program is: "init", "failed", "scheduled",
                      \* "fetching", "rendering", "ready", "crashed",
                      \* and "call"/"returned" for a lone fetch_popular_games call
  loading_popup,      \* "unbuilt" | "open" | "dismissed"
  error_label,        \* self.error_label.text
  scheduled,          \* Clock.schedule_once(self.load_games, 1) was called
  page_number,        \* loop variable of load_games' first loop
  all_popular_games,  \* local list of load_games
  poster_grid_layout, \* children of the grid, in insertion order
  log,                \* entries written to game_app.log
  current,            \* self.screen_manager.current
  detail_screen,      \* widgets of the detail screen
  http_requests,      \* history: params of every requests.get issued
  responses,          \* history: what each requests.get met
  page_results,       \* history: value each fetch_popular_games call returned
  escaped,            \* history: exception that left fetch_popular_games, or "none"
  last_nav,           \* history: last navigation handler run
  taps                \* history: show_game_details runs in a row, up to the last one

vars == <<environ, api_key, pc, loading_popup, error_label, scheduled,
          page_number, all_popular_games, poster_grid_layout, log, current,
          detail_screen, http_requests, responses, page_results, escaped,
          last_nav, taps>>

----------------------------------------------------------------------------
(* Bounds of the model *)

\* longest `results` array drawn for a lone fetch_popular_games call
MaxItems == 2
\* most taps on a tile in a row, with no Back between them
MaxTaps == 2

----------------------------------------------------------------------------
(* Python and JSON values *)

\* a JSON / Python value: its type and its text
Str(s) == [t |-> "str", s |-> s]
JsonNull == [t |-> "null", s |-> "None"]
Num(s) == [t |-> "num", s |-> s]

\* Python truthiness of such a value (`if background_image:`)
Truthy(v) ==
  CASE v.t = "str" -> v.s # ""
    [] v.t = "null" -> FALSE
    [] OTHER -> v.s # "0"

\* Optional[List[...]]: None, or a list
None == <<>>
Some(list) == <<list>>

\* truthiness of an Optional list (`if popular_games_page:`): None and [] are falsy
TruthyList(opt) == opt # None /\ opt[1] # <<>>

\* dict.get(key, default)
dict_get(d, key, default) == IF key \in DOMAIN d THEN d[key] ELSE default

\* the empty dict
EmptyDict == [k \in {} |-> <<>>]

\* os.getenv(name, default)
getenv(env, name, default) == dict_get(env, name, default)

----------------------------------------------------------------------------
(* Program constants *)

\* 'page_size': 10 in the request params
page_size == 10
\* range(1, 6): first page and the stop value of the loop
first_page == 1
stop_page == 6

game_api_base_url == "https://api.rawg.io/api/games"
default_api_key == "your_api_key_here"

NoDescription == Str("No description available")
UnknownReleaseDate == Str("Unknown release date")
NoImage == Str("")

KeyErrorText ==
  "Error: API key not found. Please check your environment variables or the default API key in the code."
PosterErrorText ==
  "Error loading poster image. Please check your internet connection and try again."
\* f"General error: {general_error}. Please check your setup and try again."
GeneralErrorText(cls) ==
  "General error: " \o cls \o ". Please check your setup and try again."

----------------------------------------------------------------------------
(* fetch_popular_games *)

\* GameDetails.__init__
GameDetails(name, description, release_date, background_image) ==
  [name |-> name, description |-> description,
   release_date |-> release_date, background_image |-> background_image]


\* GameDetailsOf reading the release date under the key 'release_date'
GameDetailsOf_WrongKey(game_data) ==
  GameDetails(game_data["name"],
              dict_get(game_data, "description", NoDescription),
              dict_get(game_data, "release_date", UnknownReleaseDate),
              dict_get(game_data, "background_image", NoImage))

\* the GameDetails(...) expression of the list comprehension, for one item
\* that has a name
GameDetailsOf(game_data) ==
  GameDetails(game_data["name"],
              dict_get(game_data, "description", NoDescription),
              dict_get(game_data, "released", UnknownReleaseDate),
              dict_get(game_data, "background_image", NoImage))


\* ListComprehension that skips the items without a name
ListComprehension_Lenient(games) ==
  [raised |-> "none",
   value |-> LET named == SelectSeq(games, LAMBDA g : "name" \in DOMAIN g)
             IN  [i \in DOMAIN named |-> GameDetailsOf(named[i])]]

\* the list comprehension: game_data['name'] raises KeyError at the first item
\* without the key, and the whole comprehension is abandoned
ListComprehension(games) ==
  IF \E i \in DOMAIN games : "name" \notin DOMAIN games[i]
  THEN [raised |-> "KeyError", value |-> <<>>]
  ELSE [raised |-> "none",
        value |-> [i \in DOMAIN games |-> GameDetailsOf(games[i])]]

\* requests.get(game_api_base_url, params=params): the request sent
Params(key, page) ==
  [url |-> game_api_base_url, key |-> key, page |-> page,
   page_size |-> page_size]

\* response.raise_for_status(): HTTPError for a 4xx or 5xx status
RaisesForStatus(status_code) == status_code >= 400 /\ status_code < 600

\* the body of the try block: the exception it raises ("none" if it returns)
\* and the list it returns
TryBody(response) ==
  IF response.transport # "ok"
  THEN [raised |-> "ConnectionError", value |-> <<>>]
  ELSE IF RaisesForStatus(response.status_code)
  THEN [raised |-> "HTTPError", value |-> <<>>]
  ELSE IF response.body.kind = "malformed"
  THEN [raised |-> "JSONDecodeError", value |-> <<>>]
  ELSE IF response.body.kind = "array"
  THEN [raised |-> "AttributeError", value |-> <<>>]
  ELSE ListComprehension(dict_get(response.body.obj, "results", <<>>))

\* subclasses of requests.RequestException among the exceptions of TryBody
\* (requests.exceptions.JSONDecodeError derives from InvalidJSONError)
IsRequestException(cls) ==
  cls \in {"ConnectionError", "HTTPError", "JSONDecodeError"}

\* subclasses of Exception (KeyboardInterrupt is a BaseException only)
IsException(cls) == cls # "KeyboardInterrupt"

LogEntry(level, msg, arg) == [level |-> level, msg |-> msg, arg |-> arg]


\* ExceptClauses with the first clause narrowed to requests.HTTPError and the
\* second to (KeyError, AttributeError)
ExceptClauses_Narrow(cls) ==
  IF cls = "HTTPError"
  THEN <<LogEntry("ERROR", "Request error occurred", cls)>>
  ELSE IF cls \in {"KeyError", "AttributeError"}
  THEN <<LogEntry("ERROR", "Unexpected error", cls)>>
  ELSE <<>>

\* the two except clauses: the log entry written for a caught exception,
\* <<>> for one that no clause catches
ExceptClauses(cls) ==
  IF IsRequestException(cls)
  THEN <<LogEntry("ERROR", "Request error occurred", cls)>>
  ELSE IF IsException(cls)
  THEN <<LogEntry("ERROR", "Unexpected error", cls)>>
  ELSE <<>>

\* fetch_popular_games as a function of the response the request meets:
\* the value returned, the exception that leaves the function ("none" when it
\* returns) and the entries it logs
fetch_popular_games(response) ==
  LET body == TryBody(response)
      caught == ExceptClauses(body.raised)
  IN  IF body.raised = "none"
      THEN [ret |-> Some(body.value), escaped |-> "none", logged |-> <<>>]
      ELSE IF caught # <<>>
      THEN [ret |-> None, escaped |-> "none", logged |-> caught]
      ELSE [ret |-> None, escaped |-> body.raised, logged |-> <<>>]

----------------------------------------------------------------------------
(* Responses of the remote API *)

EmptyBody == [kind |-> "object", obj |-> EmptyDict]
ConnectionErrorResponse ==
  [transport |-> "ConnectionError", status_code |-> 0, body |-> EmptyBody]
HttpErrorResponse(status_code) ==
  [transport |-> "ok", status_code |-> status_code, body |-> EmptyBody]
MalformedResponse ==
  [transport |-> "ok", status_code |-> 200,
   body |-> [kind |-> "malformed", obj |-> EmptyDict]]
ArrayResponse ==
  [transport |-> "ok", status_code |-> 200,
   body |-> [kind |-> "array", obj |-> EmptyDict]]
ObjectResponse(obj) ==
  [transport |-> "ok", status_code |-> 200,
   body |-> [kind |-> "object", obj |-> obj]]
ResultsResponse(results) == ObjectResponse([results |-> results])

ItemKeys == {"name", "description", "released", "background_image"}
ItemValues(key) ==
  CASE key = "name" -> {Str("Halo")}
    [] key = "description" -> {Str("A shooter")}
    [] key = "released" -> {Str("2001-11-15")}
    [] OTHER -> {Str(""), Str("https://img/halo.jpg"), JsonNull, Num("7")}

\* every JSON object over a subset of the item keys
Items ==
  UNION { { item \in [S -> UNION {ItemValues(k) : k \in ItemKeys}] :
              \A k \in S : item[k] \in ItemValues(k) } : S \in SUBSET ItemKeys }

SeqsUpTo(S, n) == UNION { [1..k -> S] : k \in 0..n }

\* the responses a lone fetch_popular_games call is run on
FetchInputs ==
  {ConnectionErrorResponse, HttpErrorResponse(404), HttpErrorResponse(500),
   MalformedResponse, ArrayResponse, ObjectResponse(EmptyDict)}
  \cup {ResultsResponse(results) : results \in SeqsUpTo(Items, MaxItems)}


\* the games the remote catalogue holds: item i of page p
GameName(p, i) == Str("game-" \o ToString(p) \o "-" \o ToString(i))
PosterUrl(p, i) ==
  Str("https://img/" \o ToString(p) \o "-" \o ToString(i) \o ".jpg")
FullItem(p, i) ==
  [name |-> GameName(p, i), description |-> Str("about " \o GameName(p, i).s),
   released |-> Str("2020-01-0" \o ToString(p)),
   background_image |-> PosterUrl(p, i)]

\* a full page: page_size items, every field present
FullPage(p) == ResultsResponse([i \in 1..page_size |-> FullItem(p, i)])
\* a page whose items lack optional fields, or carry an empty or null image
MixedPage(p) ==
  ResultsResponse(<<FullItem(p, 1),
                    [name |-> GameName(p, 2), background_image |-> Str("")],
                    [name |-> GameName(p, 3), released |-> Str("2019-05-05")],
                    [name |-> GameName(p, 4), description |-> Str("d"),
                     background_image |-> JsonNull],
                    [name |-> GameName(p, 5),
                     background_image |-> PosterUrl(p, 5)]>>)
\* a page with one item whose image is a number, not a string
BadImagePage(p) ==
  ResultsResponse(<<FullItem(p, 1),
                    [name |-> GameName(p, 2), background_image |-> Num("7")],
                    FullItem(p, 3)>>)
EmptyPage == ResultsResponse(<<>>)

\* what the request for page p may meet during start-up
Responses(p) ==
  {ConnectionErrorResponse, HttpErrorResponse(503), MalformedResponse,
   EmptyPage, MixedPage(p), BadImagePage(p), FullPage(p)}

----------------------------------------------------------------------------
(* GamePosterApp *)

NoScreen == "None"
MainScreen == "Main Screen"
DetailScreen == "Detail Screen"

\* the widgets show_game_details puts on the detail screen
DetailWidgets == <<"Game Name", "Game Description", "Release Date", "Back">>


\* KeyAbsent written `api_key is None`: getenv with a default never gives None
KeyAbsent_IsNone(key) == FALSE

\* `not api_key`
KeyAbsent(key) == key = ""


\* Dismiss left out
Dismiss_Missing(popup) == popup

\* self.loading_popup.dismiss()
Dismiss(popup) == "dismissed"

Init ==
  /\ environ \in {EmptyDict, [GAME_API_KEY |-> ""]}
  /\ api_key = getenv(environ, "GAME_API_KEY", default_api_key)
  /\ pc = "init"
  /\ loading_popup = "unbuilt"
  /\ error_label = ""
  /\ scheduled = FALSE
  /\ page_number = first_page
  /\ all_popular_games = <<>>
  /\ poster_grid_layout = <<>>
  /\ log = <<>>
  /\ current = NoScreen
  /\ detail_screen = <<>>
  /\ http_requests = <<>>
  /\ responses = <<>>
  /\ page_results = <<>>
  /\ escaped = "none"
  /\ last_nav = "none"
  /\ taps = 0

\* GamePosterApp.build
build ==
  /\ pc = "init"
  /\ IF KeyAbsent(api_key)
     THEN /\ error_label' = KeyErrorText
          /\ loading_popup' = Dismiss("open")
          /\ pc' = "failed"
          /\ UNCHANGED <<scheduled, current>>
     ELSE /\ loading_popup' = "open"
          /\ scheduled' = TRUE
          /\ current' = MainScreen
          /\ pc' = "scheduled"
          /\ UNCHANGED error_label
  /\ UNCHANGED <<environ, api_key, page_number, all_popular_games,
                 poster_grid_layout, log, detail_screen, http_requests,
                 responses, page_results, escaped, last_nav, taps>>

\* the Clock runs the scheduled callback: load_games enters its try block
load_games_begin ==
  /\ pc = "scheduled"
  /\ scheduled
  /\ pc' = "fetching"
  /\ all_popular_games' = <<>>
  /\ page_number' = first_page
  /\ UNCHANGED <<environ, api_key, loading_popup, error_label, scheduled,
                 poster_grid_layout, log, current, detail_screen,
                 http_requests, responses, page_results, escaped, last_nav,
                 taps>>


\* Extend putting the page in front of the list
Extend_Prepend(list, page) == page \o list

\* all_popular_games.extend(popular_games_page)
Extend(list, page) == list \o page


\* NextPage with `break` in place of `continue`
NextPage_Break(opt, p) == IF TruthyList(opt) THEN p + 1 ELSE stop_page

\* the for loop after the body ran for page p with result opt: the next page
\* (`continue` after a failure)
NextPage(opt, p) == p + 1

\* the except clause and the finally clause of load_games, for an exception of
\* class cls raised in the try block
OuterHandler(cls) ==
  /\ IF IsException(cls)
     THEN /\ error_label' = GeneralErrorText(cls)
          /\ log' = Append(log, LogEntry("ERROR", GeneralErrorText(cls), cls))
          /\ pc' = "ready"
     ELSE /\ UNCHANGED <<error_label, log>>
          /\ pc' = "crashed"
  /\ loading_popup' = Dismiss(loading_popup)

\* one iteration of the first loop of load_games: the fetch of page_number
load_games_fetch ==
  /\ pc = "fetching"
  /\ \E response \in Responses(page_number) :
       LET call == fetch_popular_games(response)
           popular_games_page == call.ret
       IN  /\ http_requests' = Append(http_requests, Params(api_key, page_number))
           /\ responses' = Append(responses, response)
           /\ escaped' = call.escaped
           /\ IF call.escaped # "none"
              THEN /\ OuterHandler(call.escaped)
                   /\ UNCHANGED <<page_results, all_popular_games, page_number>>
              ELSE /\ page_results' = Append(page_results, popular_games_page)
                   /\ IF TruthyList(popular_games_page)
                      THEN /\ all_popular_games' =
                                Extend(all_popular_games, popular_games_page[1])
                           /\ log' = log \o call.logged
                      ELSE /\ log' = (log \o call.logged) \o
                                <<LogEntry("ERROR",
                                           "Failed to get popular games for page",
                                           ToString(page_number))>>
                           /\ UNCHANGED all_popular_games
                   /\ page_number' = NextPage(popular_games_page, page_number)
                   /\ pc' = IF page_number' >= stop_page
                            THEN "rendering" ELSE "fetching"
                   /\ UNCHANGED <<error_label, loading_popup>>
  /\ UNCHANGED <<environ, api_key, scheduled, poster_grid_layout, current,
                 detail_screen, last_nav, taps>>

\* AsyncImage(source=...): the source property takes strings only
AsyncImageRaises(source) == source.t # "str"

Tile(source) == [source |-> source, on_release |-> "show_game_details"]


\* RenderStep without the `if background_image:` test
RenderStep_NoTest(st, game_details) ==
  [st EXCEPT !.grid = Append(@, Tile(game_details.background_image))]

\* the body of the second loop of load_games for one record; st holds the
\* grid, the log and the label
RenderStep(st, game_details) ==
  LET background_image == game_details.background_image
  IN  IF Truthy(background_image)
      THEN IF AsyncImageRaises(background_image)
           THEN [st EXCEPT
                   !.log = Append(@, LogEntry("ERROR", "Error loading poster",
                                              "ValueError")),
                   !.error_label = PosterErrorText]
           ELSE [st EXCEPT !.grid = Append(@, Tile(background_image))]
      ELSE [st EXCEPT
              !.log = Append(@, LogEntry("WARNING",
                                         "No image available for the game",
                                         game_details.name.s))]

RECURSIVE RenderLoop(_, _)
\* the second loop of load_games
RenderLoop(st, games) ==
  IF games = <<>> THEN st
  ELSE RenderLoop(RenderStep(st, Head(games)), Tail(games))

\* the second loop of load_games and the finally clause
load_games_render ==
  /\ pc = "rendering"
  /\ LET st == RenderLoop([grid |-> poster_grid_layout, log |-> log,
                           error_label |-> error_label], all_popular_games)
     IN  /\ poster_grid_layout' = st.grid
         /\ log' = st.log
         /\ error_label' = st.error_label
  /\ loading_popup' = Dismiss(loading_popup)
  /\ pc' = "ready"
  /\ UNCHANGED <<environ, api_key, scheduled, page_number, all_popular_games,
                 current, detail_screen, http_requests, responses,
                 page_results, escaped, last_nav, taps>>

\* an exception raised inside the try block of load_games at the head of
\* either loop (MemoryError), or a KeyboardInterrupt
load_games_exception ==
  /\ pc \in {"fetching", "rendering"}
  /\ \E cls \in {"MemoryError", "KeyboardInterrupt"} : OuterHandler(cls)
  /\ UNCHANGED <<environ, api_key, scheduled, page_number, all_popular_games,
                 poster_grid_layout, current, detail_screen, http_requests,
                 responses, page_results, escaped, last_nav, taps>>

\* GamePosterApp.show_game_details, bound to a tile's on_release
show_game_details ==
  /\ pc = "ready"
  /\ poster_grid_layout # <<>>
  /\ last_nav = "back" \/ taps < MaxTaps
  /\ detail_screen' = DetailWidgets
  /\ current' = DetailScreen
  /\ last_nav' = "tap"
  /\ taps' = IF last_nav = "back" THEN 1 ELSE taps + 1
  /\ UNCHANGED <<environ, api_key, pc, loading_popup, error_label, scheduled,
                 page_number, all_popular_games, poster_grid_layout, log,
                 http_requests, responses, page_results, escaped>>


\* go_back_screen leaving the current screen in place
go_back_screen_Stay(screen) == screen

\* the screen go_back makes current
go_back_screen(screen) == MainScreen

\* GamePosterApp.go_back, bound to the Back button of the detail screen
go_back ==
  /\ pc = "ready"
  /\ "Back" \in {detail_screen[i] : i \in DOMAIN detail_screen}
  /\ current' = go_back_screen(current)
  /\ last_nav' = "back"
  /\ UNCHANGED <<environ, api_key, pc, loading_popup, error_label, scheduled,
                 page_number, all_popular_games, poster_grid_layout, log,
                 detail_screen, http_requests, responses, page_results,
                 escaped, taps>>

Next ==
  \/ build
  \/ load_games_begin
  \/ load_games_fetch
  \/ load_games_render
  \/ load_games_exception
  \/ show_game_details
  \/ go_back

Spec == Init /\ [][Next]_vars

\* the event loop calls build, runs the scheduled callback, and every HTTP
\* request returns or raises
FairSpec ==
  /\ Spec
  /\ WF_vars(build)
  /\ WF_vars(load_games_begin)
  /\ WF_vars(load_games_fetch)
  /\ WF_vars(load_games_render)


----------------------------------------------------------------------------
(* A lone call of fetch_popular_games, on every response of FetchInputs *)

FetchInit ==
  /\ environ = [GAME_API_KEY |-> "k3y"]
  /\ api_key = getenv(environ, "GAME_API_KEY", default_api_key)
  /\ pc = "call"
  /\ responses \in {<<response>> : response \in FetchInputs}
  /\ loading_popup = "unbuilt"
  /\ error_label = ""
  /\ scheduled = FALSE
  /\ page_number = first_page
  /\ all_popular_games = <<>>
  /\ poster_grid_layout = <<>>
  /\ log = <<>>
  /\ current = NoScreen
  /\ detail_screen = <<>>
  /\ http_requests = <<>>
  /\ page_results = <<>>
  /\ escaped = "none"
  /\ last_nav = "none"
  /\ taps = 0

\* fetch_popular_games(page_number), meeting responses[1]
fetch_call ==
  /\ pc = "call"
  /\ LET call == fetch_popular_games(responses[1])
     IN  /\ http_requests' = Append(http_requests, Params(api_key, page_number))
         /\ page_results' = IF call.escaped = "none"
                            THEN Append(page_results, call.ret)
                            ELSE page_results
         /\ escaped' = call.escaped
         /\ log' = log \o call.logged
  /\ pc' = "returned"
  /\ UNCHANGED <<environ, api_key, loading_popup, error_label, scheduled,
                 page_number, all_popular_games, poster_grid_layout, current,
                 detail_screen, responses, last_nav, taps>>

FetchSpec == FetchInit /\ [][fetch_call]_vars


----------------------------------------------------------------------------
(* Properties *)

Last(seq) == seq[Len(seq)]

\* load_games has returned and neither of its except clauses ran
LoadedCleanly == pc = "ready" /\ error_label = ""

\* the first loop of load_games ran to its end
FetchLoopDone ==
  \/ pc = "rendering"
  \/ pc = "ready" /\ error_label # GeneralErrorText("MemoryError")

\* the successful results among the first n, concatenated in page order
RECURSIVE Successful(_, _)
Successful(results, n) ==
  IF n = 0 THEN <<>>
  ELSE Successful(results, n - 1) \o
       (IF results[n] = None THEN <<>> ELSE results[n][1])

\* the `results` array of a response that carries one
ResultsOf(response) == dict_get(response.body.obj, "results", <<>>)

\* C1: the fetches issued so far are for pages 1, 2, 3, ... in that order,
\* one request per page and never more than five; once the first loop has run
\* to its end, whatever pages failed, exactly pages 1..5 were requested and
\* each call returned; the aggregated list holds as many records as the
\* successful pages returned, so a failed page adds none.
C1_EachPageFetchedOnceInOrder ==
  pc \in {"scheduled", "fetching", "rendering", "ready", "crashed"} =>
    /\ Len(http_requests) <= 5
    /\ \A i \in DOMAIN http_requests : http_requests[i].page = i
    /\ Len(page_results) = Len(http_requests)
    /\ FetchLoopDone => [i \in DOMAIN http_requests |-> http_requests[i].page]
                          = <<1, 2, 3, 4, 5>>
    /\ Len(all_popular_games) = Len(Successful(page_results, Len(page_results)))
    /\ \A i \in DOMAIN page_results :
         page_results[i] = None =>
           Len(Successful(page_results, i)) = Len(Successful(page_results, i - 1))

\* pages 2 and 4 failed, pages 1, 3 and 5 gave records, and all five were fetched
C1_Witness ==
  /\ pc = "rendering"
  /\ Len(page_results) = 5
  /\ page_results[2] = None /\ page_results[4] = None
  /\ TruthyList(page_results[1]) /\ TruthyList(page_results[3])
  /\ TruthyList(page_results[5])

\* the names of the records of a list, in order
NamesOf(list) == [i \in DOMAIN list |-> list[i].name]

\* the names the successfully fetched pages among the first n carry, in page
\* order and in response order within a page
RECURSIVE ExpectedNames(_)
ExpectedNames(n) ==
  IF n = 0 THEN <<>>
  ELSE ExpectedNames(n - 1) \o
       (IF page_results[n] = None THEN <<>>
        ELSE [j \in DOMAIN ResultsOf(responses[n]) |->
                ResultsOf(responses[n])[j]["name"]])

\* all five pages carried ten records and were fetched successfully
FiveFullPages ==
  /\ Len(page_results) = 5
  /\ \A p \in 1..5 : page_results[p] # None /\ Len(ResultsOf(responses[p])) = 10

\* C2: the aggregated catalog is the concatenation, in page order, of the
\* lists the successful fetches returned, and its records follow the order of
\* the items in the API responses; with five pages of ten valid records it
\* has exactly 50 records, record (p-1)*10+j being item j of page p.
C2_CatalogIsPageMajorConcatenation ==
  pc \in {"fetching", "rendering", "ready", "crashed"} =>
    /\ all_popular_games = Successful(page_results, Len(page_results))
    /\ NamesOf(all_popular_games) = ExpectedNames(Len(page_results))
    /\ FiveFullPages =>
         /\ Len(all_popular_games) = 50
         /\ \A p \in 1..5 : \A j \in 1..10 :
              all_popular_games[(p - 1) * 10 + j].name =
                ResultsOf(responses[p])[j]["name"]

\* five pages of ten records were aggregated into 50 records
C2_Witness ==
  /\ pc = "rendering"
  /\ FiveFullPages
  /\ Len(all_popular_games) = 50

\* C3: with an empty (falsy) api_key, build leaves the app in the Failed
\* state for good: the fixed message is in the status label, load_games is
\* not scheduled and no HTTP request has been issued.
C3_NoKeyFailsWithoutRequests ==
  (api_key = "" /\ pc # "init") =>
    /\ pc = "failed"
    /\ error_label =
         "Error: API key not found. Please check your environment variables or the default API key in the code."
    /\ ~scheduled
    /\ http_requests = <<>>

\* build has run with GAME_API_KEY set to the empty string
C3_Witness ==
  /\ pc = "failed"
  /\ "GAME_API_KEY" \in DOMAIN environ
  /\ api_key = ""

\* C4: on every start-up path the loading indicator ends dismissed and stays
\* so: whenever build has returned without a key, or load_games has returned
\* or was left by an exception, the indicator is dismissed; once dismissed it
\* is never open again; and every fair execution reaches that point.
C4_IndicatorEventuallyDismissed ==
  /\ [](pc \in {"failed", "ready", "crashed"} => loading_popup = "dismissed")
  /\ [][loading_popup = "dismissed" => loading_popup' = "dismissed"]_vars
  /\ <>[](loading_popup = "dismissed")

\* load_games was left through its except clause after three pages, and the
\* indicator is dismissed
C4_Witness ==
  /\ pc = "ready"
  /\ error_label = GeneralErrorText("MemoryError")
  /\ Len(page_results) = 3
  /\ loading_popup = "dismissed"

\* a connection failure, a non-2xx status or a body that is not JSON
IsFailureResponse(response) ==
  \/ response.transport # "ok"
  \/ response.status_code < 200 \/ response.status_code > 299
  \/ response.body.kind = "malformed"

\* C5: every request that met a connection failure, a non-2xx status or a
\* malformed body made fetch_popular_games return None, and no exception ever
\* left fetch_popular_games; the step in which such a fetch fails leaves the
\* aggregated list as it was and load_games goes on with its loop.
C5_FetchFailureIsContained ==
  /\ [](pc \in {"fetching", "rendering", "ready", "crashed"} =>
          /\ escaped = "none"
          /\ \A i \in DOMAIN responses :
               IsFailureResponse(responses[i]) =>
                 i \in DOMAIN page_results /\ page_results[i] = None)
  /\ [][(pc = "fetching" /\ Len(responses') > Len(responses)
           /\ IsFailureResponse(Last(responses')))
        => /\ all_popular_games' = all_popular_games
           /\ pc' \in {"fetching", "rendering"}]_vars

\* the three kinds of failure each met a page, after a page that gave records
C5_Witness ==
  /\ Len(page_results) >= 4
  /\ TruthyList(page_results[1])
  /\ responses[2].transport # "ok"
  /\ responses[3].status_code = 503
  /\ responses[4].body.kind = "malformed"
  /\ all_popular_games = page_results[1][1]


\* the items of a `results` array that carry a name, in order
Named(results) == SelectSeq(results, LAMBDA item : "name" \in DOMAIN item)

\* exactly one item of the array lacks `name`
OneNameless(results) ==
  Cardinality({i \in DOMAIN results : "name" \notin DOMAIN results[i]}) = 1

\* the lone call returned, and its response was a well-formed page
ReturnedForPage ==
  /\ pc = "returned"
  /\ responses[1].transport = "ok"
  /\ responses[1].status_code = 200
  /\ responses[1].body.kind = "object"

\* C6 as claimed: when exactly one item of a valid page of several items lacks
\* `name`, the call still returns a list, with one record for each of the
\* other items.
C6_OnlyNamelessItemSkipped ==
  (ReturnedForPage /\ OneNameless(ResultsOf(responses[1]))
     /\ Len(ResultsOf(responses[1])) >= 2) =>
    /\ page_results # <<>>
    /\ page_results[1] # None
    /\ NamesOf(page_results[1][1]) =
         [i \in DOMAIN Named(ResultsOf(responses[1])) |->
            Named(ResultsOf(responses[1]))[i]["name"]]

\* C6 amended: when an item of an otherwise valid page lacks `name`, the call
\* returns None for the whole page: no item of the page becomes a record, the
\* KeyError does not leave the function and is logged as an unexpected error.
C6_NamelessItemFailsWholePage ==
  (ReturnedForPage
     /\ \E i \in DOMAIN ResultsOf(responses[1]) :
          "name" \notin DOMAIN ResultsOf(responses[1])[i]) =>
    /\ page_results = <<None>>
    /\ escaped = "none"
    /\ log = <<LogEntry("ERROR", "Unexpected error", "KeyError")>>

\* a page of two items, the first complete and the second without a name,
\* came back as None
C6_Witness ==
  /\ ReturnedForPage
  /\ Len(ResultsOf(responses[1])) = 2
  /\ DOMAIN ResultsOf(responses[1])[1] = ItemKeys
  /\ "name" \notin DOMAIN ResultsOf(responses[1])[2]
  /\ page_results = <<None>>

\* the value a record carries for an optional key: the item's own value when
\* the key is present, the documented sentinel otherwise
Decoded(item, key, sentinel) ==
  IF key \in DOMAIN item THEN item[key] ELSE sentinel

\* C7: in every list fetch_popular_games returns there is one record per
\* result item, and each of description, released, background_image is the
\* item's own value when present and otherwise its sentinel ('No description
\* available', 'Unknown release date', ''), each field on its own.
C7_MissingOptionalFieldsGetSentinels ==
  (ReturnedForPage /\ page_results # <<>> /\ page_results[1] # None) =>
    LET results == ResultsOf(responses[1])
        records == page_results[1][1]
    IN  /\ Len(records) = Len(results)
        /\ \A i \in DOMAIN results :
             /\ records[i].name = results[i]["name"]
             /\ records[i].description =
                  Decoded(results[i], "description",
                          [t |-> "str", s |-> "No description available"])
             /\ records[i].release_date =
                  Decoded(results[i], "released",
                          [t |-> "str", s |-> "Unknown release date"])
             /\ records[i].background_image =
                  Decoded(results[i], "background_image",
                          [t |-> "str", s |-> ""])

\* a returned page holds an item with a release date and no description or
\* image beside an item with only a description
C7_Witness ==
  /\ ReturnedForPage /\ page_results # <<>> /\ page_results[1] # None
  /\ Len(page_results[1][1]) = 2
  /\ DOMAIN ResultsOf(responses[1])[1] = {"name", "released"}
  /\ DOMAIN ResultsOf(responses[1])[2] = {"name", "description"}
  /\ page_results[1][1][1].release_date = Str("2001-11-15")
  /\ page_results[1][1][1].description = Str("No description available")
  /\ page_results[1][1][2].release_date = Str("Unknown release date")

\* an image URL that is empty: the empty string, or no value at all
EmptyImage(image) == image = Str("") \/ image = JsonNull

WithImage(games) ==
  SelectSeq(games, LAMBDA g : ~EmptyImage(g.background_image))
WithoutImage(games) ==
  SelectSeq(games, LAMBDA g : EmptyImage(g.background_image))
Warnings(entries) == SelectSeq(entries, LAMBDA e : e.level = "WARNING")

\* C8: once load_games has returned with no exception raised in it, the grid
\* holds one tile per record with a non-empty image, in catalog order, each
\* showing that record's image, and none for the other records; one warning
\* was logged per record with an empty image, in catalog order, so the loop
\* went on past each of them.
C8_OneTilePerRecordWithImage ==
  LoadedCleanly =>
    /\ [i \in DOMAIN poster_grid_layout |-> poster_grid_layout[i].source] =
         [i \in DOMAIN WithImage(all_popular_games) |->
            WithImage(all_popular_games)[i].background_image]
    /\ [i \in DOMAIN Warnings(log) |-> Warnings(log)[i].arg] =
         [i \in DOMAIN WithoutImage(all_popular_games) |->
            WithoutImage(all_popular_games)[i].name.s]
    /\ \A i \in DOMAIN Warnings(log) :
         Warnings(log)[i].msg = "No image available for the game"

\* a catalog whose second record has an empty image and whose last record has
\* one was rendered: fewer tiles than records
C8_Witness ==
  /\ LoadedCleanly
  /\ Len(all_popular_games) >= 5
  /\ EmptyImage(all_popular_games[2].background_image)
  /\ ~EmptyImage(Last(all_popular_games).background_image)
  /\ poster_grid_layout # <<>>
  /\ Len(poster_grid_layout) < Len(all_popular_games)
  /\ Last(poster_grid_layout).source = Last(all_popular_games).background_image

\* C9: after start-up the active screen is Main or Detail; a tap on a tile
\* leaves Detail active and a Back leaves Main active, whatever taps and
\* backs came before; a navigation step changes neither the aggregated
\* catalog nor the tiles of the grid.
C9_NavigationHasNoStack ==
  /\ [](pc \in {"scheduled", "fetching", "rendering", "ready", "crashed"} =>
          current \in {"Main Screen", "Detail Screen"})
  /\ [](last_nav = "tap" => current = "Detail Screen")
  /\ [](last_nav = "back" => current = "Main Screen")
  /\ [][pc = "ready" =>
          /\ pc' = "ready"
          /\ all_popular_games' = all_popular_games
          /\ poster_grid_layout' = poster_grid_layout]_vars

\* one Back after two taps in a row returned to the main screen
C9_Witness ==
  /\ last_nav = "back"
  /\ taps = 2
  /\ current = "Main Screen"
  /\ poster_grid_layout # <<>>

\* the error entry load_games writes for page p
FailedEntry(p) ==
  LogEntry("ERROR", "Failed to get popular games for page", ToString(p))

Logged(entry) == \E i \in DOMAIN log : log[i] = entry

\* C10 as claimed: the entry 'Failed to get popular games for page p' is in
\* the log exactly when the fetch of page p returned None.
C10_FailureLoggedIffFetchFailed ==
  pc \in {"fetching", "rendering", "ready", "crashed"} =>
    \A p \in DOMAIN page_results :
      Logged(FailedEntry(p)) <=> page_results[p] = None


====
